---- MODULE Spec2Model ----
(***************************************************************************)
(* Model of consensus/misc/eip1559.go: the header check                    *)
(* VerifyEip1559Header, the price oracle FetchSEPPrice and the base-fee    *)
(* derivation CalcBaseFee, run by validators against a live quote service. *)
(*                                                                         *)
(* Numbers.  TLC integers are 32 bits wide, so                             *)
(*  - a *big.Int is a sign and a sequence of limbs in base 10^4, of any    *)
(*    length, and its arithmetic is exact;                                 *)
(*  - a float64 is an exact fraction [num, den], den > 0, in lowest terms, *)
(*    with the IEEE specials written den = 0: NaN = 0/0, +Inf = 1/0,       *)
(*    -Inf = -1/0.                                                         *)
(* The price texts drawn here are decimals n / 10^k.  For such a rate the  *)
(* exact value of 0.99 / r / 21000 * 10^9 is 330000 * 10^k / (7 * n),      *)
(* never an integer and at least 1 / (7 * n) away from one, while the      *)
(* five float64 roundings of the code move it by less than that for every  *)
(* k <= 9; truncating the exact fraction therefore gives the integer the   *)
(* float64 code gives.                                                     *)
(***************************************************************************)
EXTENDS Integers, Sequences, FiniteSets, TLC

\* ------------------------------------------------------------ bounds
\* Price texts served by the quote service: mantissas 1..MaxMantissa
\* written with 0..MaxFracDigits fractional digits.
MaxMantissa == 5
MaxFracDigits == 1

\* ------------------------------------------------------------ integers
Abs(i) == IF i < 0 THEN -i ELSE i

RECURSIVE Gcd(_, _)
Gcd(a, b) == IF b = 0 THEN a ELSE Gcd(b, a % b)

RECURSIVE Pow10(_)
Pow10(k) == IF k = 0 THEN 1 ELSE 10 * Pow10(k - 1)

\* ------------------------------------------------------------ float64
NaN == [num |-> 0, den |-> 0]
PosInf == [num |-> 1, den |-> 0]
NegInf == [num |-> -1, den |-> 0]

\* The fraction n / d (d # 0) in lowest terms with a positive denominator.
Rat(n, d) ==
    LET g == Gcd(Abs(n), Abs(d))
        s == IF d < 0 THEN -1 ELSE 1
    IN  [num |-> s * (n \div g), den |-> Abs(d) \div g]

IsNaN(x) == x.den = 0 /\ x.num = 0
IsInf(x) == x.den = 0 /\ x.num # 0

\* x <= 0 and x > 0 as float64 comparisons: both are false of NaN.
Leq0(x) == ~IsNaN(x) /\ x.num <= 0
Gt0(x) == ~IsNaN(x) /\ x.num > 0

\* float64 division x / y.
FloatDiv(x, y) ==
    IF IsNaN(x) \/ IsNaN(y) THEN NaN
    ELSE IF IsInf(x) THEN (IF IsInf(y) THEN NaN
                           ELSE IF y.num < 0 THEN [num |-> -x.num, den |-> 0]
                           ELSE x)
    ELSE IF IsInf(y) THEN Rat(0, 1)
    ELSE IF y.num = 0 THEN (IF x.num = 0 THEN NaN
                            ELSE IF x.num > 0 THEN PosInf ELSE NegInf)
    ELSE LET g1 == Gcd(Abs(x.num), Abs(y.num))
             g2 == Gcd(x.den, y.den)
         IN  Rat((x.num \div g1) * (y.den \div g2),
                 (x.den \div g2) * (y.num \div g1))

\* The float64 of a small integer.
Float(i) == Rat(i, 1)

\* ------------------------------------------------------------ big.Int
\* A *big.Int of any size: a sign and the magnitude's limbs in base 10^4,
\* least significant first, without leading zero limbs (zero is <<>>).
Base == 10000

Big(neg, limbs) == [neg |-> neg, limbs |-> limbs]

RECURSIVE Limbs(_)
Limbs(n) == IF n = 0 THEN <<>> ELSE <<n % Base>> \o Limbs(n \div Base)

RECURSIVE StripZeros(_)
StripZeros(a) ==
    IF a # <<>> /\ a[Len(a)] = 0 THEN StripZeros(SubSeq(a, 1, Len(a) - 1)) ELSE a

\* The big.Int of a machine integer.
BigOfInt(i) == Big(i < 0, Limbs(Abs(i)))

RECURSIVE AddLimbs(_, _, _)
AddLimbs(a, b, carry) ==
    IF a = <<>> /\ b = <<>> THEN (IF carry = 0 THEN <<>> ELSE <<carry>>)
    ELSE LET x == IF a = <<>> THEN 0 ELSE Head(a)
             y == IF b = <<>> THEN 0 ELSE Head(b)
             t == x + y + carry
         IN  <<t % Base>> \o AddLimbs(IF a = <<>> THEN a ELSE Tail(a),
                                       IF b = <<>> THEN b ELSE Tail(b),
                                       t \div Base)

\* The limbs of a times the single limb m, plus carry.
RECURSIVE MulLimb(_, _, _)
MulLimb(a, m, carry) ==
    IF a = <<>> THEN (IF carry = 0 THEN <<>> ELSE <<carry>>)
    ELSE LET t == Head(a) * m + carry
         IN  <<t % Base>> \o MulLimb(Tail(a), m, t \div Base)

RECURSIVE MulLimbs(_, _)
MulLimbs(a, b) ==
    IF a = <<>> \/ b = <<>> THEN <<>>
    ELSE StripZeros(AddLimbs(MulLimb(a, Head(b), 0), <<0>> \o MulLimbs(a, Tail(b)), 0))

\* (*big.Int).Mul: the exact product.
BigMul(x, y) ==
    LET m == MulLimbs(x.limbs, y.limbs)
    IN  Big(m # <<>> /\ x.neg # y.neg, m)

\* x + y for non-negative x, y.
BigAdd(x, y) == Big(FALSE, AddLimbs(x.limbs, y.limbs, 0))

\* x + 1 for a non-negative x.
BigSucc(x) == BigAdd(x, BigOfInt(1))

\* Quotient and remainder of the magnitude a by d, 0 < d < 2^31 / Base.
RECURSIVE DivLimbs(_, _)
DivLimbs(a, d) ==
    IF a = <<>> THEN [q |-> <<>>, r |-> 0]
    ELSE LET top == DivLimbs(Tail(a), d)
             cur == top.r * Base + Head(a)
         IN  [q |-> <<cur \div d>> \o top.q, r |-> cur % d]

\* x / d truncated toward zero, and what is left over, for such a d.
BigDivRem(x, d) ==
    LET dr == DivLimbs(x.limbs, d)
        q == StripZeros(dr.q)
    IN  [q |-> Big(q # <<>> /\ x.neg, q), r |-> dr.r]

\* ------------------------------------------------------------ big.Float
\* A *big.Float holding the product of two float64 values: the fraction
\* num / den with a big.Int numerator; den = 0 stands for an infinity of
\* num's sign.  The denominators met here stay below 2^31 / Base.
BigFloat(num, den) == [num |-> num, den |-> den]
BigIsInf(x) == x.den = 0

\* new(big.Float).Mul(big.NewFloat(x), big.NewFloat(y)) for x, y not NaN.
FloatMul(x, y) ==
    IF IsInf(x) \/ IsInf(y)
    THEN BigFloat(BigOfInt((IF x.num < 0 THEN -1 ELSE 1) * (IF y.num < 0 THEN -1 ELSE 1)), 0)
    ELSE LET g1 == Gcd(Abs(x.num), y.den)
             g2 == Gcd(Abs(y.num), x.den)
         IN  BigFloat(BigMul(BigOfInt(x.num \div g1), BigOfInt(y.num \div g2)),
                      (x.den \div g2) * (y.den \div g1))

\* Rounding the magnitude to the nearest integer instead of truncating.
RoundNearest(x) ==
    LET twice == BigAdd(Big(FALSE, MulLimb(x.num.limbs, 2, 0)), BigOfInt(x.den))
        q == BigDivRem(twice, 2 * x.den).q
    IN  Big(q.limbs # <<>> /\ x.num.neg, q.limbs)

\* (*big.Float).Int of a finite value: truncated toward zero.
Trunc(x) == BigDivRem(x.num, x.den).q

\* ------------------------------------------------------------ errors
Error(msg, args) == [msg |-> msg, args |-> args]
NoError == Error("nil", <<>>)
ErrFetch == Error("failed to fetch data", <<>>)
ErrReadBody == Error("failed to read response body", <<>>)
ErrParseJSON == Error("failed to parse JSON", <<>>)
ErrNotFound == Error("SEP_USDT price not found", <<>>)
ErrMissingBaseFee == Error("header is missing baseFee", <<>>)

\* ------------------------------------------------------------ fmt.Sscanf("%f")
DigitChars == <<"0", "1", "2", "3", "4", "5", "6", "7", "8", "9">>
Digits == {DigitChars[i] : i \in 1..10}
DigitValue(c) == (CHOOSE i \in 1..10 : DigitChars[i] = c) - 1
SignChars == {"+", "-"}

\* The characters price texts are written in.  Exponents, hexadecimal
\* prefixes and underscores, which the scanner also reads, are not drawn.
TextChars == Digits \cup SignChars \cup {".", "N", "n", "a", "A", "I", "i", "f", "F", "b", "c"}

\* ss.accept at position i: the rune is consumed when it is one of ok.
Accept(t, i, ok) == i <= Len(t) /\ t[i] \in ok

\* How many of the successive accepts `s.accept(oks[1]) && s.accept(oks[2]) && ...`
\* succeed from position i (each success consumes its rune).
RECURSIVE AcceptRun(_, _, _)
AcceptRun(t, i, oks) ==
    IF oks = <<>> \/ ~Accept(t, i, Head(oks)) THEN 0
    ELSE 1 + AcceptRun(t, i + 1, Tail(oks))

\* `for s.accept(digits) {}`: the position after the run of digits from i.
RECURSIVE DigitsEnd(_, _)
DigitsEnd(t, i) == IF Accept(t, i, Digits) THEN DigitsEnd(t, i + 1) ELSE i

RECURSIVE DigitsValue(_)
DigitsValue(ds) ==
    IF ds = <<>> THEN 0
    ELSE 10 * DigitsValue(SubSeq(ds, 1, Len(ds) - 1)) + DigitValue(ds[Len(ds)])

\* ss.floatToken followed by ss.convertFloat (strconv.ParseFloat): the
\* token is read greedily from the front of the text and whatever follows
\* it is left unread; ok is FALSE when ParseFloat rejects the token (or the
\* text is empty), and the scan then fails without storing a value.
ScanFloat(t) ==
    LET nanCnt == AcceptRun(t, 1, <<{"n", "N"}, {"a", "A"}, {"n", "N"}>>)
        p1 == 1 + nanCnt
        p2 == IF Accept(t, p1, SignChars) THEN p1 + 1 ELSE p1
        neg == p2 > p1 /\ t[p1] = "-"
        infCnt == AcceptRun(t, p2, <<{"i", "I"}, {"n", "N"}, {"f", "F"}>>)
        p3 == p2 + infCnt
        p4 == DigitsEnd(t, p3)
        point == Accept(t, p4, {"."})
        p5 == IF point THEN DigitsEnd(t, p4 + 1) ELSE p4
        intDigits == SubSeq(t, p3, p4 - 1)
        fracDigits == IF point THEN SubSeq(t, p4 + 1, p5 - 1) ELSE <<>>
        mantissa == DigitsValue(intDigits \o fracDigits)
        fail == [ok |-> FALSE, val |-> Float(0)]
    IN  IF t = <<>> THEN fail
        ELSE IF nanCnt = 3 THEN [ok |-> TRUE, val |-> NaN]
        ELSE IF nanCnt > 0 THEN fail
        ELSE IF infCnt = 3 THEN [ok |-> TRUE, val |-> IF neg THEN NegInf ELSE PosInf]
        ELSE IF infCnt > 0 THEN fail
        ELSE IF Len(intDigits) + Len(fracDigits) = 0 THEN fail
        ELSE [ok |-> TRUE,
              val |-> Rat(IF neg THEN -mantissa ELSE mantissa, Pow10(Len(fracDigits)))]

\* `var price float64; fmt.Sscanf(priceStr, "%f", &price)`: the error of the
\* scan is dropped, and price keeps its zero value when the scan fails.
SscanfPrice(priceStr) ==
    LET r == ScanFloat(priceStr)
    IN  IF r.ok THEN r.val ELSE Float(0)

\* ------------------------------------------------------------ the quote document
\* A response body as json.Unmarshal sees it: json = "malformed" when it
\* does not decode into a map, else the "result" member (absent, an array,
\* or some other value) and, for an array, its items.  An item is an object
\* or not; its members "s" and "p" are absent, a string, or another value.
Member(t, v) == [t |-> t, v |-> v]
Item(obj, sym, price) == [obj |-> obj, s |-> sym, p |-> price]
Doc(json, result, items) == [json |-> json, result |-> result, items |-> items]

Symbol == "sep_usdt"

\* FetchSEPPrice from the decoded body on: the first item that is an object
\* whose "s" is the string "sep_usdt" and whose "p" is a string decides.
RECURSIVE ScanItems(_, _)
ScanItems(items, i) ==
    IF i > Len(items) THEN [price |-> Float(0), err |-> ErrNotFound]
    ELSE LET token == items[i]
         IN  IF token.obj /\ token.s.t = "string" /\ token.s.v = Symbol
                /\ token.p.t = "string"
             THEN [price |-> SscanfPrice(token.p.v), err |-> NoError]
             ELSE ScanItems(items, i + 1)

ParseBody(doc) ==
    IF doc.json = "malformed" THEN [price |-> Float(0), err |-> ErrParseJSON]
    ELSE IF doc.result = "array" THEN ScanItems(doc.items, 1)
    ELSE [price |-> Float(0), err |-> ErrNotFound]

\* ------------------------------------------------------------ CalcBaseFee
fallbackGwei == 476190
gasUnits == 21000
gweiPerSep == 1000000000
usdTarget == Rat(99, 100)
weiPerGwei == 1000000000
factor == BigOfInt(weiPerGwei)

FallbackBaseFee == BigMul(BigOfInt(fallbackGwei), factor)

\* `if err != nil || sepPrice <= 0`
UseFallbackErrOnly(sepPrice, err) == err # NoError
UseFallback(sepPrice, err) == err # NoError \/ Leq0(sepPrice)

Value(fee) == [kind |-> "value", fee |-> fee]
Panic == [kind |-> "panic", fee |-> BigOfInt(0)]

\* The other order: scale by 10^9 first, truncate once at the end.
ScaleThenTrunc(baseFeeInGwei) ==
    Trunc(BigFloat(BigMul(baseFeeInGwei.num, factor), baseFeeInGwei.den))

\* baseFeeInGwei.Int(nil) and the multiplication by factor, in this order.
TruncThenScale(baseFeeInGwei) == BigMul(Trunc(baseFeeInGwei), factor)

\* CalcBaseFee after the oracle call returned (sepPrice, err).  NewFloat
\* panics on NaN; Int returns nil for an infinite value and Mul then
\* dereferences it.
CalcBaseFeeOf(sepPrice, err) ==
    IF UseFallback(sepPrice, err) THEN Value(FallbackBaseFee)
    ELSE LET sepForGas == FloatDiv(usdTarget, sepPrice)
             baseFeeInSep == FloatDiv(sepForGas, Float(gasUnits))
         IN  IF IsNaN(baseFeeInSep) THEN Panic
             ELSE LET baseFeeInGwei == FloatMul(baseFeeInSep, Float(gweiPerSep))
                  IN  IF BigIsInf(baseFeeInGwei) THEN Panic
                      ELSE Value(TruncThenScale(baseFeeInGwei))

\* ------------------------------------------------------------ VerifyEip1559Header
GasLimitBoundDivisor == 1024
MinGasLimit == 5000

\* The gas-limit-bound check of the package: the candidate's limit must
\* stay within parent / GasLimitBoundDivisor of the parent's and not fall
\* below MinGasLimit.
VerifyGaslimit(parentGasLimit, headerGasLimit) ==
    LET diff == Abs(parentGasLimit - headerGasLimit)
        limit == parentGasLimit \div GasLimitBoundDivisor
    IN  IF diff >= limit
        THEN Error("invalid gas limit", <<headerGasLimit, parentGasLimit, limit - 1>>)
        ELSE IF headerGasLimit < MinGasLimit
        THEN Error("invalid gas limit below 5000", <<>>)
        ELSE NoError

NoBaseFee == [present |-> FALSE, val |-> BigOfInt(0)]
BaseFee(b) == [present |-> TRUE, val |-> b]
Header(gasLimit, baseFee) == [GasLimit |-> gasLimit, BaseFee |-> baseFee]

\* The nil check taken before the gas-limit check.
VerifyNilFirst(parentGasLimit, header) ==
    IF ~header.BaseFee.present THEN ErrMissingBaseFee
    ELSE VerifyGaslimit(parentGasLimit, header.GasLimit)

\* The nil check left out.
VerifyNoNilCheck(parentGasLimit, header) ==
    VerifyGaslimit(parentGasLimit, header.GasLimit)

VerifyEip1559Header(parentGasLimit, header) ==
    LET err == VerifyGaslimit(parentGasLimit, header.GasLimit)
    IN  IF err # NoError THEN err
        ELSE IF ~header.BaseFee.present THEN ErrMissingBaseFee
        ELSE NoError

\* ------------------------------------------------------------ inputs
\* The decimal text of mantissa n with k fractional digits ("0.5" for
\* n = 5, k = 1), as the quote service writes a price.
RECURSIVE IntDigits(_)
IntDigits(n) ==
    IF n < 10 THEN <<DigitChars[n + 1]>>
    ELSE IntDigits(n \div 10) \o <<DigitChars[(n % 10) + 1]>>

RECURSIVE ZeroPad(_, _)
ZeroPad(ds, len) == IF Len(ds) >= len THEN ds ELSE ZeroPad(<<"0">> \o ds, len)

DecimalText(n, k) ==
    LET ds == ZeroPad(IntDigits(n), k + 1)
        cut == Len(ds) - k
    IN  IF k = 0 THEN ds
        ELSE SubSeq(ds, 1, cut) \o <<".">> \o SubSeq(ds, cut + 1, Len(ds))

DecimalTexts == {DecimalText(n, k) : n \in 1..MaxMantissa, k \in 0..MaxFracDigits}

\* Texts that are not plain positive decimals: empty, zero, negative,
\* letters, a number followed by letters, the IEEE specials, a bare sign.
OddTexts ==
    { <<>>, <<"0">>, <<"-", "1">>, <<"a", "b", "c">>, <<"2", "a">>,
      <<"N", "a", "N">>, <<"I", "n", "f">>, <<".", "5">>, <<"-">> }

PriceTexts == DecimalTexts \cup OddTexts

\* Members: a symbol's value is a string, a price's a sequence of characters.
Str(v) == Member("string", v)
NoSym == Member("absent", "")
OtherSym == Member("other", "")
NoPrice == Member("absent", <<>>)
OtherPrice == Member("other", <<>>)

SepItem(text) == Item(TRUE, Str(Symbol), Str(text))
BtcItem == Item(TRUE, Str("btc_usdt"), Str(<<"9">>))

Docs ==
    { Doc("malformed", "absent", <<>>),
      Doc("object", "absent", <<>>),
      Doc("object", "other", <<>>),
      Doc("object", "array", <<>>),
      Doc("object", "array", <<BtcItem>>),
      Doc("object", "array", <<BtcItem, SepItem(<<"0", ".", "5">>)>>),
      Doc("object", "array", <<Item(FALSE, NoSym, NoPrice), SepItem(<<"2">>)>>),
      Doc("object", "array", <<Item(TRUE, Str(Symbol), NoPrice)>>),
      Doc("object", "array", <<Item(TRUE, Str(Symbol), OtherPrice), SepItem(<<"1">>)>>),
      Doc("object", "array", <<Item(TRUE, OtherSym, Str(<<"1">>))>>) }
    \cup { Doc("object", "array", <<SepItem(t)>>) : t \in PriceTexts }

Validators == {"v1", "v2"}
ParentGasLimits == {5000, 10240}
HeaderGasLimits == {4999, 5000, 10249}

\* ------------------------------------------------------------ state
VARIABLES
    pc,       \* where each validator's thread stands
    reqs,     \* requests issued by the validator's current or last call
    resp,     \* the response the validator holds: is its body open
    stalled,  \* the quote service has stopped answering this validator's request
    last      \* the inputs and results of the validator's last finished call

vars == <<pc, reqs, resp, stalled, last>>

NoResp == [open |-> FALSE]

NoCall ==
    [op |-> "none", parentGasLimit |-> 0, header |-> Header(0, NoBaseFee),
     verr |-> NoError, price |-> Float(0), ferr |-> NoError, out |-> Value(BigOfInt(0))]

VerifyCall(parentGasLimit, header, verr) ==
    [NoCall EXCEPT !.op = "verify", !.parentGasLimit = parentGasLimit,
                   !.header = header, !.verr = verr]

CalcCall(price, ferr, out) ==
    [NoCall EXCEPT !.op = "calc", !.price = price, !.ferr = ferr, !.out = out]

Init ==
    /\ pc = [v \in Validators |-> "idle"]
    /\ reqs = [v \in Validators |-> 0]
    /\ resp = [v \in Validators |-> NoResp]
    /\ stalled = [v \in Validators |-> FALSE]
    /\ last = [v \in Validators |-> NoCall]

\* What CalcBaseFee returns when the quote service answers with document d.
Expected(d) == LET r == ParseBody(d) IN CalcBaseFeeOf(r.price, r.err)

\* The documents of a quote service pinned to one rate (1, and 0.5).
MockDocs == {Doc("object", "array", <<SepItem(<<"1">>)>>),
             Doc("object", "array", <<SepItem(<<"0", ".", "5">>)>>)}

\* Candidate base fees: none, the value CalcBaseFee derives from a pinned
\* rate, and that value plus one smallest fee subunit.
BaseFeeInputs ==
    {NoBaseFee} \cup {BaseFee(Expected(d).fee) : d \in MockDocs}
                \cup {BaseFee(BigSucc(Expected(d).fee)) : d \in MockDocs}

\* VerifyEip1559Header(config, parent, header), start to return.
Verify(v) ==
    /\ pc[v] \in {"idle", "done"}
    /\ \E parentGasLimit \in ParentGasLimits, gasLimit \in HeaderGasLimits,
          baseFee \in BaseFeeInputs :
          LET header == Header(gasLimit, baseFee)
          IN  last' = [last EXCEPT ![v] =
                         VerifyCall(parentGasLimit, header,
                                    VerifyEip1559Header(parentGasLimit, header))]
    /\ pc' = [pc EXCEPT ![v] = "done"]
    /\ reqs' = [reqs EXCEPT ![v] = 0]
    /\ UNCHANGED <<resp, stalled>>

\* CalcBaseFee(config, parent) is entered and calls FetchSEPPrice.
CallCalcBaseFee(v) ==
    /\ pc[v] \in {"idle", "done"}
    /\ pc' = [pc EXCEPT ![v] = "call"]
    /\ reqs' = [reqs EXCEPT ![v] = 0]
    /\ last' = [last EXCEPT ![v] = NoCall]
    /\ UNCHANGED <<resp, stalled>>

\* http.Get(apiURL) runs on http.DefaultClient, whose CheckRedirect is nil:
\* the client follows a redirect answer with a new GET, and refuses once
\* maxRedirects requests have gone out in the call.
maxRedirects == 10

\* One more request of the call goes out.
HttpGetIssued(n) == n + 1

\* http.Get(apiURL) is called: the first request goes out.
HttpGet(v) ==
    /\ pc[v] = "call"
    /\ pc' = [pc EXCEPT ![v] = "get"]
    /\ reqs' = [reqs EXCEPT ![v] = HttpGetIssued(reqs[v])]
    /\ UNCHANGED <<resp, stalled, last>>

\* FetchSEPPrice returned (price, ferr) to CalcBaseFee, which runs to its end.
FinishCalc(v, price, ferr) ==
    LET out == CalcBaseFeeOf(price, ferr)
    IN  /\ last' = [last EXCEPT ![v] = CalcCall(price, ferr, out)]
        /\ pc' = [pc EXCEPT ![v] = IF out.kind = "panic" THEN "panic" ELSE "done"]

\* `defer resp.Body.Close()` running at the return of FetchSEPPrice.
DeferredClose(r) == NoResp

\* The quote service answers the request in flight with a redirect (301,
\* 302, 303, 307, 308 and a Location).  Inside http.Get the client closes
\* that answer's body and sends a GET to the new location; after
\* maxRedirects requests it stops, and http.Get returns the error together
\* with the last answer, its body already closed.
HttpGetRedirected(v) ==
    /\ pc[v] = "get" /\ ~stalled[v]
    /\ IF reqs[v] < maxRedirects
       THEN /\ reqs' = [reqs EXCEPT ![v] = HttpGetIssued(reqs[v])]
            /\ UNCHANGED <<pc, last>>
       ELSE /\ FinishCalc(v, Float(0), ErrFetch)
            /\ UNCHANGED reqs
    /\ UNCHANGED <<resp, stalled>>

\* http.Get returns an error: no response, nothing to close.
HttpGetFails(v) ==
    /\ pc[v] = "get" /\ ~stalled[v]
    /\ FinishCalc(v, Float(0), ErrFetch)
    /\ UNCHANGED <<reqs, resp, stalled>>

\* The quote service answers the request in flight with something other
\* than a redirect: http.Get returns the response, its body open and still
\* to be read.
HttpGetResponds(v) ==
    /\ pc[v] = "get" /\ ~stalled[v]
    /\ pc' = [pc EXCEPT ![v] = "read"]
    /\ resp' = [resp EXCEPT ![v] = [open |-> TRUE]]
    /\ UNCHANGED <<reqs, stalled, last>>

\* ioutil.ReadAll fails part-way.
ReadAllFails(v) ==
    /\ pc[v] = "read" /\ ~stalled[v]
    /\ FinishCalc(v, Float(0), ErrReadBody)
    /\ resp' = [resp EXCEPT ![v] = DeferredClose(resp[v])]
    /\ UNCHANGED <<reqs, stalled>>

\* ioutil.ReadAll returns the body, whatever document the quote service
\* sent at that moment; it is decoded and scanned.
ReadAllOk(v) ==
    /\ pc[v] = "read" /\ ~stalled[v]
    /\ \E d \in Docs :
          LET r == ParseBody(d)
          IN  FinishCalc(v, r.price, r.err)
    /\ resp' = [resp EXCEPT ![v] = DeferredClose(resp[v])]
    /\ UNCHANGED <<reqs, stalled>>

\* The quote service accepts the request and then sends nothing more; the
\* default http client sets no timeout.
EndpointStalls(v) ==
    /\ pc[v] \in {"get", "read"} /\ ~stalled[v]
    /\ stalled' = [stalled EXCEPT ![v] = TRUE]
    /\ UNCHANGED <<pc, reqs, resp, last>>

\* The node is started again after a panic took it down.
Restart(v) ==
    /\ pc[v] = "panic"
    /\ pc' = [pc EXCEPT ![v] = "idle"]
    /\ last' = [last EXCEPT ![v] = NoCall]
    /\ UNCHANGED <<reqs, resp, stalled>>

Step(v) ==
    \/ Verify(v)
    \/ CallCalcBaseFee(v)
    \/ HttpGet(v)
    \/ HttpGetFails(v)
    \/ HttpGetRedirected(v)
    \/ HttpGetResponds(v)
    \/ ReadAllFails(v)
    \/ ReadAllOk(v)
    \/ EndpointStalls(v)
    \/ Restart(v)

Next == \E v \in Validators : Step(v)

Spec == Init /\ [][Next]_vars

\* The thread of a validator keeps running: the request is sent, an answer
\* that is not withheld is taken (a redirect is followed), and a body that
\* keeps arriving is read to its end (or to a read error).  Nothing obliges the quote service to
\* answer, and nothing obliges a validator to start a call.
Fairness ==
    \A v \in Validators :
        /\ WF_vars(HttpGet(v))
        /\ WF_vars(HttpGetFails(v) \/ HttpGetRedirected(v) \/ HttpGetResponds(v))
        /\ WF_vars(ReadAllFails(v) \/ ReadAllOk(v))

FairSpec == Init /\ [][Next]_vars /\ Fairness

\* ------------------------------------------------------------ properties
IsVerify(v) == pc[v] = "done" /\ last[v].op = "verify"
IsCalc(v) == last[v].op = "calc"
GasLimitErr(v) == VerifyGaslimit(last[v].parentGasLimit, last[v].header.GasLimit)
LiveRate(v) ==
    IsCalc(v) /\ last[v].ferr = NoError /\ Gt0(last[v].price) /\ ~IsInf(last[v].price)

\* The quote service pinned to the rate 1.
MockQuote == Doc("object", "array", <<SepItem(<<"1">>)>>)

\* C1: a candidate within the gas-limit bound that carries a base fee is
\* accepted exactly when that base fee is the one CalcBaseFee derives from
\* the pinned rate, and rejected otherwise.
C1_AcceptsOnlyExpected ==
    \A v \in Validators :
        IsVerify(v) /\ GasLimitErr(v) = NoError /\ last[v].header.BaseFee.present
        => (last[v].verr = NoError
              <=> last[v].header.BaseFee.val = Expected(MockQuote).fee)

\* C2: whenever the oracle call returned an error or a rate <= 0,
\* CalcBaseFee returned exactly 476190 * 10^9.
C2_FallbackOnFailure ==
    \A v \in Validators :
        IsCalc(v) /\ (last[v].ferr # NoError \/ Leq0(last[v].price))
        => last[v].out = Value(Big(FALSE, <<0, 0, 1900, 476>>))

C2_Witness ==
    /\ IsCalc("v1") /\ last["v1"].ferr = ErrParseJSON
    /\ IsCalc("v2") /\ last["v2"].ferr = NoError /\ last["v2"].price = Float(-1)
    /\ last["v2"].out = Value(FallbackBaseFee)

\* C3: Verify on a candidate without a base fee, its gas limit within the
\* bound, returns the missing-base-fee error and has issued no request.
C3_MissingBaseFeeBeforeOracle ==
    \A v \in Validators :
        IsVerify(v) /\ GasLimitErr(v) = NoError /\ ~last[v].header.BaseFee.present
        => last[v].verr = ErrMissingBaseFee /\ reqs[v] = 0

C3_Witness ==
    \E v \in Validators :
        /\ IsVerify(v) /\ GasLimitErr(v) = NoError /\ ~last[v].header.BaseFee.present
        /\ last[v].verr = ErrMissingBaseFee

\* C4: whenever the gas-limit-bound check fails, Verify returns that check's
\* error unchanged, whatever the candidate's base fee.
C4_GasLimitErrorFirst ==
    \A v \in Validators :
        IsVerify(v) /\ GasLimitErr(v) # NoError => last[v].verr = GasLimitErr(v)

C4_Witness ==
    /\ IsVerify("v1") /\ GasLimitErr("v1") # NoError
    /\ ~last["v1"].header.BaseFee.present
    /\ IsVerify("v2") /\ GasLimitErr("v2") # NoError
    /\ GasLimitErr("v2") # GasLimitErr("v1")
    /\ last["v2"].header.BaseFee = BaseFee(Expected(MockQuote).fee)

\* C5: whenever FetchSEPPrice returned without an error, the rate it
\* returned is > 0.
C5_RatePositiveOnSuccess ==
    \A v \in Validators : IsCalc(v) /\ last[v].ferr = NoError => Gt0(last[v].price)

\* 0.99 * 10^9 / 21000 as a fraction: the per-gas cost in the smallest
\* subunit at rate 1, before truncation.
PerGasAtOne == Rat(99 * (gweiPerSep \div 100), gasUnits)

\* The per-gas cost at the rate n / d, before truncation.
PerGasAt(rate) == Rat(PerGasAtOne.num * rate.den, PerGasAtOne.den * rate.num)

\* C6: for a rate r > 0 CalcBaseFee returns trunc(0.99 / r / 21000 * 10^9)
\* * 10^9: a non-negative multiple of 10^9, and not the value truncated once
\* after both scalings whenever the two differ.
C6_TruncateThenScale ==
    \A v \in Validators :
        LiveRate(v) =>
            LET x == PerGasAt(last[v].price)
                q == x.num \div x.den
                fee == last[v].out.fee
                by5 == BigDivRem(fee, 100000)
                by9 == BigDivRem(by5.q, 10000)
                once == ScaleThenTrunc(BigFloat(BigOfInt(x.num), x.den))
            IN  /\ last[v].out.kind = "value"
                /\ ~fee.neg /\ by5.r = 0 /\ by9.r = 0
                /\ by9.q = BigOfInt(q)
                /\ q * x.den <= x.num /\ x.num < (q + 1) * x.den
                /\ (BigDivRem(once, 100000).r # 0 \/ BigDivRem(BigDivRem(once, 100000).q, 10000).r # 0
                    => fee # once)

C6_Witness ==
    \E v \in Validators :
        /\ LiveRate(v) /\ last[v].price = Rat(1, 2)
        /\ last[v].out = Value(Big(FALSE, <<0, 0, 2850, 94>>))
        /\ ScaleThenTrunc(BigFloat(BigOfInt(PerGasAt(last[v].price).num),
                                   PerGasAt(last[v].price).den))
           = Big(FALSE, <<5714, 1428, 2857, 94>>)

\* C7 as stated: the output for r = 0.5 is double the output for r = 1.0.
C7_HalfRateDoubles ==
    \A v, w \in Validators :
        LiveRate(v) /\ LiveRate(w) /\ last[v].price = Float(1) /\ last[w].price = Rat(1, 2)
        => last[w].out.fee = BigAdd(last[v].out.fee, last[v].out.fee)

\* C7: the output is a function of the rate alone; for r = 1.0 it is
\* 47142 * 10^9 and for r = 0.5 it is 94285 * 10^9, and in general the output
\* for half a rate is double the output for the rate, or that plus 10^9.
C7_HalfRateDoublesUpToTruncation ==
    \A v, w \in Validators :
        LiveRate(v) /\ LiveRate(w) =>
            LET rv == last[v].price
                rw == last[w].price
                fv == last[v].out.fee
                fw == last[w].out.fee
            IN  /\ rv = rw => last[v].out = last[w].out
                /\ rv.num * rw.den = 2 * rw.num * rv.den
                   => fw \in {BigAdd(fv, fv), BigAdd(BigAdd(fv, fv), factor)}
                /\ rv = Float(1) => fv = Big(FALSE, <<0, 0, 1420, 47>>)
                /\ rv = Rat(1, 2) => fv = Big(FALSE, <<0, 0, 2850, 94>>)

C7_Witness ==
    /\ LiveRate("v1") /\ last["v1"].price = Float(1)
    /\ LiveRate("v2") /\ last["v2"].price = Rat(1, 2)
    /\ last["v2"].out.fee = BigAdd(BigAdd(last["v1"].out.fee, last["v1"].out.fee), factor)

\* C8: two validators that each ran CalcBaseFee for the same parent, each
\* with its own oracle call, hold the same expected base fee.
C8_ValidatorsAgree ==
    \A v, w \in Validators :
        IsCalc(v) /\ IsCalc(w) /\ pc[v] = "done" /\ pc[w] = "done"
        => last[v].out = last[w].out

\* C9: a call of FetchSEPPrice issues exactly one request, and the response
\* body it opened is closed when it returns; no body is open outside a call
\* that is reading it.
C9_OneRequestBodyClosed ==
    \A v \in Validators :
        /\ reqs[v] <= 1
        /\ IsCalc(v) => reqs[v] = 1 /\ ~resp[v].open
        /\ pc[v] # "read" => ~resp[v].open

\* C10: every call whose request has gone out eventually returns to its
\* caller, whatever the quote service does.
C10_EveryCallReturns ==
    \A v \in Validators : (pc[v] = "get") ~> (pc[v] = "done" /\ IsCalc(v))

====
